---- MODULE Spec2Model ----
(***************************************************************************)
(* Model of ConventionalCommitValidator (src/src/validator.ts) and of the  *)
(* rule tables it imports from ./rules.                                    *)
(*                                                                         *)
(* A JavaScript string is a sequence of one-character strings; indices in  *)
(* the helpers are 0-based like the String methods they model, and -1 is   *)
(* "not found".                                                            *)
(***************************************************************************)
EXTENDS Integers, Sequences, FiniteSets, TLC

VARIABLES
    strict,                 \* this.strict
    maxDescriptionLength,   \* this.maxDescriptionLength
    lastIndex,              \* lastIndex of each shared pattern the validator tests
    title,                  \* the argument of the latest call of validate
    pc,                     \* "ready": constructed, no call yet; "done": returned
    result,                 \* the ValidationResult returned by the latest call
    calls,                  \* number of calls made on the instance
    inputs,                 \* what core.getInput returns for each input of the action
    payload,                \* github.context.payload
    rpc,                    \* position of run(): "idle" when the action is not run
    titleToCheck,           \* the local titleToCheck of run(): <<>> until assigned
    failed,                 \* the messages passed to core.setFailed, in order
    info                    \* the messages passed to core.info, in order

validatorVars == <<strict, maxDescriptionLength, lastIndex, title, pc, result, calls>>

runVars == <<inputs, payload, rpc, titleToCheck, failed, info>>

vars == <<strict, maxDescriptionLength, lastIndex, title, pc, result, calls,
          inputs, payload, rpc, titleToCheck, failed, info>>

-----------------------------------------------------------------------------
(* Strings and characters                                                  *)

Chars(str) == [i \in 1..Len(str) |-> SubSeq(str, i, i)]

Range(s) == {s[i] : i \in 1..Len(s)}

LOWER == Chars("abcdefghijklmnopqrstuvwxyz")

UPPER == Chars("ABCDEFGHIJKLMNOPQRSTUVWXYZ")

LowerSet == Range(LOWER)

UpperSet == Range(UPPER)

LetterSet == LowerSet \cup UpperSet

DigitSet == Range(Chars("0123456789"))

\* a character that a string of this language cannot hold is written as
\* one element named by its code point
GraveAccent == "U+0060"

\* the characters 0x20..0x7E
PrintableSet ==
    LetterSet \cup DigitSet
        \cup Range(Chars(" !#$%&'()*+,-./:;<=>?@[]^_{|}~"))
        \cup {"\"", "\\", GraveAccent}

\* the white space of \s and String.prototype.trim beyond space, tab, line
\* feed, carriage return and form feed: the vertical tab, the no-break
\* space, the space separators, the line and paragraph separators and the
\* byte order mark
UnicodeSpaces ==
    { "U+000B", "U+00A0", "U+1680",
      "U+2000", "U+2001", "U+2002", "U+2003", "U+2004", "U+2005",
      "U+2006", "U+2007", "U+2008", "U+2009", "U+200A",
      "U+2028", "U+2029", "U+202F", "U+205F", "U+3000", "U+FEFF" }

\* what \s and String.prototype.trim treat as white space
WhiteSpace == {" ", "\t", "\n", "\r", "\f"} \cup UnicodeSpaces

\* the lower-case letter of each upper-case letter
LowerOf == [c \in UpperSet |-> LOWER[CHOOSE i \in 1..Len(UPPER) : UPPER[i] = c]]

toLowerChar(c) == IF c \in UpperSet THEN LowerOf[c] ELSE c

toLowerCase(s) == [i \in 1..Len(s) |-> toLowerChar(s[i])]

\* sub occurs in s at the 0-based index i
occursAt(s, sub, i) ==
    /\ i >= 0
    /\ i + Len(sub) <= Len(s)
    /\ \A k \in 1..Len(sub) : s[i + k] = sub[k]

includes(s, sub) == \E i \in 0..(Len(s) - Len(sub)) : occursAt(s, sub, i)

\* the first index at or after i where sub occurs in s, -1 when there is none
RECURSIVE indexFrom(_, _, _)
indexFrom(s, sub, i) ==
    IF i + Len(sub) > Len(s) THEN -1
    ELSE IF occursAt(s, sub, i) THEN i
    ELSE indexFrom(s, sub, i + 1)

indexOf(s, sub) == indexFrom(s, sub, 0)

substring(s, from, to) == SubSeq(s, from + 1, to)

substringFrom(s, from) == SubSeq(s, from + 1, Len(s))

startsWith(s, sub) == occursAt(s, sub, 0)

endsWith(s, sub) == occursAt(s, sub, Len(s) - Len(sub))

\* number of characters of s from position i on (1-based) that belong to set
\* before the first one that does not
RECURSIVE runFrom(_, _, _)
runFrom(s, set, i) ==
    IF i <= Len(s) /\ s[i] \in set THEN 1 + runFrom(s, set, i + 1) ELSE 0

\* number of leading characters of s that belong to set
leadingRun(s, set) == runFrom(s, set, 1)

\* number of characters of s up to position i that belong to set after the
\* last one that does not
RECURSIVE runBackFrom(_, _, _)
runBackFrom(s, set, i) ==
    IF i >= 1 /\ s[i] \in set THEN 1 + runBackFrom(s, set, i - 1) ELSE 0

\* number of trailing characters of s that belong to set
trailingRun(s, set) == runBackFrom(s, set, Len(s))

trim(s) ==
    LET a == leadingRun(s, WhiteSpace)
    IN  IF a = Len(s) THEN <<>>
        ELSE SubSeq(s, a + 1, Len(s) - trailingRun(s, WhiteSpace))

\* s.replace(/!/g, '') for c = "!"
removeAll(s, c) == SelectSeq(s, LAMBDA x : x # c)

-----------------------------------------------------------------------------
(* ./rules                                                                 *)

ALLOWED_TYPES ==
    << Chars("feat"), Chars("fix"), Chars("docs"), Chars("style"),
       Chars("refactor"), Chars("perf"), Chars("test"), Chars("build"),
       Chars("ci"), Chars("chore"), Chars("revert") >>

MAX_DESCRIPTION_LENGTH == 50

ERROR_CODES ==
    { "INVALID_FORMAT", "INVALID_TYPE", "TYPE_NOT_LOWERCASE", "EMPTY_SCOPE",
      "INVALID_SCOPE_FORMAT", "SCOPE_NOT_LOWERCASE",
      "INVALID_BREAKING_CHANGE_POSITION", "MISSING_DESCRIPTION",
      "DESCRIPTION_TOO_LONG", "DESCRIPTION_NOT_LOWERCASE",
      "DESCRIPTION_ENDS_WITH_PERIOD", "DESCRIPTION_HAS_LEADING_SPACE",
      "DESCRIPTION_HAS_TRAILING_SPACE", "MISSING_SPACE_AFTER_COLON",
      "MULTIPLE_SPACES_AFTER_COLON", "NON_ASCII_CHARACTERS",
      "NON_IMPERATIVE_MOOD" }

ERROR_MESSAGES ==
    [ INVALID_FORMAT |-> "Title format is incorrect. Expected format: <type>[optional scope][optional !]: <description>",
      INVALID_TYPE |-> "Type must be one of: feat, fix, docs, style, refactor, perf, test, build, ci, chore, revert",
      TYPE_NOT_LOWERCASE |-> "Type must be lowercase",
      EMPTY_SCOPE |-> "Scope cannot be empty. Either provide a scope or omit the parentheses",
      INVALID_SCOPE_FORMAT |-> "Scope format is incorrect. Scope should only contain lowercase letters, numbers, hyphens, and underscores",
      SCOPE_NOT_LOWERCASE |-> "Scope must be lowercase (strict mode)",
      INVALID_BREAKING_CHANGE_POSITION |-> "Breaking change marker (!) must be placed after the scope (or type if no scope) and before the colon",
      MISSING_DESCRIPTION |-> "Description is required after the colon and space",
      DESCRIPTION_TOO_LONG |-> "Description must not exceed 50 characters",
      DESCRIPTION_NOT_LOWERCASE |-> "Description must start with a lowercase letter (strict mode)",
      DESCRIPTION_ENDS_WITH_PERIOD |-> "Description must not end with a period (strict mode)",
      DESCRIPTION_HAS_LEADING_SPACE |-> "Description must not start with a space",
      DESCRIPTION_HAS_TRAILING_SPACE |-> "Description must not end with a space",
      MISSING_SPACE_AFTER_COLON |-> "There must be exactly one space after the colon",
      MULTIPLE_SPACES_AFTER_COLON |-> "There must be exactly one space after the colon, not multiple spaces",
      NON_ASCII_CHARACTERS |-> "Title must only contain displayable ASCII characters (range: 32-126)",
      NON_IMPERATIVE_MOOD |-> "Description should use imperative mood (e.g., \"add\" not \"added\" or \"adds\")" ]

ERROR_EXAMPLES ==
    [ INVALID_FORMAT |-> "feat(auth): add user login",
      INVALID_TYPE |-> "feat: add new feature",
      TYPE_NOT_LOWERCASE |-> "feat: add new feature",
      EMPTY_SCOPE |-> "feat(auth): add user login",
      INVALID_SCOPE_FORMAT |-> "feat(user-auth): add login",
      SCOPE_NOT_LOWERCASE |-> "feat(auth): add user login",
      INVALID_BREAKING_CHANGE_POSITION |-> "feat(api)!: breaking change",
      MISSING_DESCRIPTION |-> "feat: add new feature",
      DESCRIPTION_TOO_LONG |-> "feat: add user authentication",
      DESCRIPTION_NOT_LOWERCASE |-> "feat: add user authentication",
      DESCRIPTION_ENDS_WITH_PERIOD |-> "feat: add user authentication",
      DESCRIPTION_HAS_LEADING_SPACE |-> "feat: add user authentication",
      DESCRIPTION_HAS_TRAILING_SPACE |-> "feat: add user authentication",
      MISSING_SPACE_AFTER_COLON |-> "feat: add new feature",
      MULTIPLE_SPACES_AFTER_COLON |-> "feat: add new feature",
      NON_ASCII_CHARACTERS |-> "feat: add user authentication",
      NON_IMPERATIVE_MOOD |-> "feat: add feature (not \"added\" or \"adds\")" ]

\* PATTERNS.nonAscii = /[^\x20-\x7E]/
nonAscii(s) == \E i \in 1..Len(s) : s[i] \notin PrintableSet

\* PATTERNS.descriptionStartsLowercase = /^[a-z]/
descriptionStartsLowercase(s) == Len(s) > 0 /\ s[1] \in LowerSet

\* PATTERNS.endsWithPeriod = /\.$/
endsWithPeriod(s) == Len(s) > 0 /\ s[Len(s)] = "."

\* the members of PATTERNS that the validator tests
PatternNames == {"nonAscii", "descriptionStartsLowercase", "endsWithPeriod"}

\* all three with the g flag
HasGlobalFlag_all == [p \in PatternNames |-> TRUE]

\* whether the pattern carries the g (or y) flag: none does
HasGlobalFlag == [p \in PatternNames |-> FALSE]

\* lastIndex of the patterns when the module is loaded
FreshPatterns == [p \in PatternNames |-> 0]

\* where the search of pattern.test(s) starts: at lastIndex under the g flag
searchStart(p, li) == IF HasGlobalFlag[p] THEN li[p] ELSE 0

\* PATTERNS[p].test(s) with the lastIndex values li
test(p, s, li) ==
    LET from == searchStart(p, li)
    IN  /\ from <= Len(s)
        /\ CASE p = "nonAscii" -> nonAscii(substringFrom(s, from))
             [] p = "descriptionStartsLowercase" ->
                    from = 0 /\ descriptionStartsLowercase(s)
             [] p = "endsWithPeriod" -> from < Len(s) /\ endsWithPeriod(s)

\* lastIndex of PATTERNS[p] after PATTERNS[p].test(s): untouched without the
\* g flag, else the end of the match, or 0 when there is none
lastIndexAfterTest(p, s, li) ==
    LET from == searchStart(p, li)
    IN  IF ~HasGlobalFlag[p] THEN li[p]
        ELSE IF ~test(p, s, li) THEN 0
        ELSE CASE p = "nonAscii" ->
                    from + 1 + leadingRun(substringFrom(s, from), PrintableSet)
               [] p = "descriptionStartsLowercase" -> 1
               [] p = "endsWithPeriod" -> Len(s)

-----------------------------------------------------------------------------
(* ConventionalCommitValidator                                             *)

createError(code) ==
    [ code |-> code,
      message |-> ERROR_MESSAGES[code],
      example |-> ERROR_EXAMPLES[code] ]

\* /[A-Z]/.test(s)
hasUppercase(s) == \E i \in 1..Len(s) : s[i] \in UpperSet

\* title.match(/^([a-zA-Z]+)/): the matched text, <<>> when there is no match
typeMatch(t) == SubSeq(t, 1, leadingRun(t, LetterSet))

\* beforeColon.match(/\(([^)]*)\)/): whole is match[0], group is match[1]
scopeMatch(beforeColon) ==
    LET open == indexOf(beforeColon, <<"(">>)
        rest == substringFrom(beforeColon, open + 1)
        close == indexOf(rest, <<")">>)
    IN  IF open = -1 \/ close = -1
        THEN [matched |-> FALSE, whole |-> <<>>, group |-> <<>>]
        ELSE [matched |-> TRUE,
              whole |-> substring(beforeColon, open, open + 1 + close + 1),
              group |-> substring(rest, 0, close)]

\* the value null of parseTitle
NULL == [isNull |-> TRUE]

\* parseTitle with the comparison of line 96 made after removing spaces as
\* well as "!" from the text before the colon
parseTitle_ignoresSpaces(t) ==
    LET type == typeMatch(t)
        colonIndex == indexOf(t, <<":">>)
        beforeColon == substring(t, 0, colonIndex)
        sm == scopeMatch(beforeColon)
        scope == IF sm.matched THEN <<sm.group>> ELSE <<>>
        isBreakingChange == includes(beforeColon, <<"!">>)
        withoutExclamation == removeAll(removeAll(beforeColon, "!"), " ")
        expectedWithoutExclamation ==
            removeAll(type \o (IF sm.matched THEN sm.whole ELSE <<>>), " ")
        description == substringFrom(t, colonIndex + 1)
    IN  IF Len(type) = 0 THEN NULL
        ELSE IF colonIndex = -1 THEN NULL
        ELSE IF withoutExclamation # expectedWithoutExclamation THEN NULL
        ELSE [ isNull |-> FALSE,
               type |-> type,
               scope |-> scope,
               isBreakingChange |-> isBreakingChange,
               description |-> description ]

\* parseTitle with the scope matched in the text from which "!" was removed
parseTitle_scopeFromStripped(t) ==
    LET type == typeMatch(t)
        colonIndex == indexOf(t, <<":">>)
        beforeColon == substring(t, 0, colonIndex)
        withoutExclamation == removeAll(beforeColon, "!")
        sm == scopeMatch(withoutExclamation)
        scope == IF sm.matched THEN <<sm.group>> ELSE <<>>
        isBreakingChange == includes(beforeColon, <<"!">>)
        expectedWithoutExclamation == type \o (IF sm.matched THEN sm.whole ELSE <<>>)
        description == substringFrom(t, colonIndex + 1)
    IN  IF Len(type) = 0 THEN NULL
        ELSE IF colonIndex = -1 THEN NULL
        ELSE IF withoutExclamation # expectedWithoutExclamation THEN NULL
        ELSE [ isNull |-> FALSE,
               type |-> type,
               scope |-> scope,
               isBreakingChange |-> isBreakingChange,
               description |-> description ]

\* scope is <<>> for undefined and <<s>> for the string s
parseTitle(t) ==
    LET type == typeMatch(t)
        colonIndex == indexOf(t, <<":">>)
        beforeColon == substring(t, 0, colonIndex)
        sm == scopeMatch(beforeColon)
        scope == IF sm.matched THEN <<sm.group>> ELSE <<>>
        isBreakingChange == includes(beforeColon, <<"!">>)
        withoutExclamation == removeAll(beforeColon, "!")
        expectedWithoutExclamation == type \o (IF sm.matched THEN sm.whole ELSE <<>>)
        description == substringFrom(t, colonIndex + 1)
    IN  IF Len(type) = 0 THEN NULL
        ELSE IF colonIndex = -1 THEN NULL
        ELSE IF withoutExclamation # expectedWithoutExclamation THEN NULL
        ELSE [ isNull |-> FALSE,
               type |-> type,
               scope |-> scope,
               isBreakingChange |-> isBreakingChange,
               description |-> description ]

\* validateType with the membership test as the else branch of the case test
validateType_elseIf(type) ==
    IF hasUppercase(type) THEN <<createError("TYPE_NOT_LOWERCASE")>>
    ELSE IF ~(\E i \in 1..Len(ALLOWED_TYPES) : ALLOWED_TYPES[i] = toLowerCase(type))
    THEN <<createError("INVALID_TYPE")>>
    ELSE <<>>

validateType(type) ==
    (IF hasUppercase(type) THEN <<createError("TYPE_NOT_LOWERCASE")>> ELSE <<>>)
    \o
    (IF ~(\E i \in 1..Len(ALLOWED_TYPES) : ALLOWED_TYPES[i] = toLowerCase(type))
     THEN <<createError("INVALID_TYPE")>> ELSE <<>>)

\* the strict scope pattern without the digits: /^[a-z_-]+$/
strictScopeFormat_noDigits(s) ==
    Len(s) > 0 /\ \A i \in 1..Len(s) : s[i] \in LowerSet \cup {"_", "-"}

\* [a-z0-9_-]
StrictScopeChars == LowerSet \cup DigitSet \cup {"_", "-"}

\* [a-zA-Z0-9_-]
LenientScopeChars == LetterSet \cup DigitSet \cup {"_", "-"}

\* the strict scope pattern with the i flag: /^[a-z0-9_-]+$/i
strictScopeFormat_ignoreCase(s) ==
    Len(s) > 0 /\ \A i \in 1..Len(s) : s[i] \in LenientScopeChars

\* /^[a-z0-9_-]+$/.test(s)
strictScopeFormat(s) ==
    Len(s) > 0 /\ \A i \in 1..Len(s) : s[i] \in StrictScopeChars

\* the lenient scope pattern without the digits: /^[a-zA-Z_-]+$/
lenientScopeFormat_noDigits(s) ==
    Len(s) > 0 /\ \A i \in 1..Len(s) : s[i] \in LetterSet \cup {"_", "-"}

\* /^[a-zA-Z0-9_-]+$/.test(s)
lenientScopeFormat(s) ==
    Len(s) > 0 /\ \A i \in 1..Len(s) : s[i] \in LenientScopeChars

\* validateScope with the strict format test skipped once an uppercase letter
\* has been reported
validateScope_formatUnlessUppercase(isStrict, t, scope) ==
    IF scope # <<>> /\ Len(scope[1]) = 0 THEN <<createError("EMPTY_SCOPE")>>
    ELSE IF scope # <<>> /\ Len(scope[1]) > 0
    THEN IF isStrict /\ hasUppercase(scope[1])
         THEN <<createError("SCOPE_NOT_LOWERCASE")>>
         ELSE IF isStrict
         THEN (IF ~strictScopeFormat(scope[1])
               THEN <<createError("INVALID_SCOPE_FORMAT")>> ELSE <<>>)
         ELSE (IF ~lenientScopeFormat(scope[1])
               THEN <<createError("INVALID_SCOPE_FORMAT")>> ELSE <<>>)
    ELSE <<>>

\* validateScope without the return after EMPTY_SCOPE and with the second
\* block entered for every captured scope
validateScope_emptyChecksFormat(isStrict, t, scope) ==
    (IF scope # <<>> /\ Len(scope[1]) = 0
     THEN <<createError("EMPTY_SCOPE")>> ELSE <<>>)
    \o
    (IF scope # <<>>
     THEN (IF isStrict /\ hasUppercase(scope[1])
           THEN <<createError("SCOPE_NOT_LOWERCASE")>> ELSE <<>>)
          \o
          (IF isStrict
           THEN (IF ~strictScopeFormat(scope[1])
                 THEN <<createError("INVALID_SCOPE_FORMAT")>> ELSE <<>>)
           ELSE (IF ~lenientScopeFormat(scope[1])
                 THEN <<createError("INVALID_SCOPE_FORMAT")>> ELSE <<>>))
     ELSE <<>>)

validateScope(isStrict, t, scope) ==
    IF scope # <<>> /\ Len(scope[1]) = 0 THEN <<createError("EMPTY_SCOPE")>>
    ELSE IF scope # <<>> /\ Len(scope[1]) > 0
    THEN (IF isStrict /\ hasUppercase(scope[1])
          THEN <<createError("SCOPE_NOT_LOWERCASE")>> ELSE <<>>)
         \o
         (IF isStrict
          THEN (IF ~strictScopeFormat(scope[1])
                THEN <<createError("INVALID_SCOPE_FORMAT")>> ELSE <<>>)
          ELSE (IF ~lenientScopeFormat(scope[1])
                THEN <<createError("INVALID_SCOPE_FORMAT")>> ELSE <<>>))
    ELSE <<>>

\* the pattern without its scope group: /^[a-z]+!:/i
validBreakingPattern_noScopeGroup(t) ==
    LET n == leadingRun(t, LetterSet)
    IN  n > 0 /\ startsWith(substringFrom(t, n), <<"!", ":">>)

\* the pattern without its final colon: /^[a-z]+(\([^)]*\))?!/i
validBreakingPattern_noColon(t) ==
    LET n == leadingRun(t, LetterSet)
        rest == substringFrom(t, n)
        close == indexOf(rest, <<")">>)
    IN  /\ n > 0
        /\ \/ startsWith(rest, <<"!">>)
           \/ /\ startsWith(rest, <<"(">>)
              /\ close # -1
              /\ startsWith(substringFrom(rest, close + 1), <<"!">>)

\* /^[a-z]+(\([^)]*\))?!:/i.test(t)
validBreakingPattern(t) ==
    LET n == leadingRun(t, LetterSet)
        rest == substringFrom(t, n)
        close == indexOf(rest, <<")">>)
    IN  /\ n > 0
        /\ \/ startsWith(rest, <<"!", ":">>)
           \/ /\ startsWith(rest, <<"(">>)
              /\ close # -1
              /\ startsWith(substringFrom(rest, close + 1), <<"!", ":">>)

\* validateBreakingChange without the else branch of lines 186-191
validateBreakingChange_ignoresDescription(t, isBreakingChange) ==
    LET colonIndex == indexOf(t, <<":">>)
        exclamationIndex == indexOf(t, <<"!">>)
    IN  IF isBreakingChange
        THEN IF exclamationIndex = -1 \/ exclamationIndex >= colonIndex
             THEN <<createError("INVALID_BREAKING_CHANGE_POSITION")>>
             ELSE IF ~validBreakingPattern(t)
             THEN <<createError("INVALID_BREAKING_CHANGE_POSITION")>>
             ELSE <<>>
        ELSE <<>>

\* validateBreakingChange with the check of a "!" after the colon made for
\* every title, after the checks of the marker before the colon
validateBreakingChange_descriptionAlways(t, isBreakingChange) ==
    LET colonIndex == indexOf(t, <<":">>)
        exclamationIndex == indexOf(t, <<"!">>)
        afterColon == substringFrom(t, colonIndex + 1)
    IN  (IF isBreakingChange
         THEN IF exclamationIndex = -1 \/ exclamationIndex >= colonIndex
              THEN <<createError("INVALID_BREAKING_CHANGE_POSITION")>>
              ELSE IF ~validBreakingPattern(t)
              THEN <<createError("INVALID_BREAKING_CHANGE_POSITION")>>
              ELSE <<>>
         ELSE <<>>)
        \o (IF includes(afterColon, <<"!">>)
            THEN <<createError("INVALID_BREAKING_CHANGE_POSITION")>>
            ELSE <<>>)

validateBreakingChange(t, isBreakingChange) ==
    LET colonIndex == indexOf(t, <<":">>)
        exclamationIndex == indexOf(t, <<"!">>)
    IN  IF isBreakingChange
        THEN IF exclamationIndex = -1 \/ exclamationIndex >= colonIndex
             THEN <<createError("INVALID_BREAKING_CHANGE_POSITION")>>
             ELSE IF ~validBreakingPattern(t)
             THEN <<createError("INVALID_BREAKING_CHANGE_POSITION")>>
             ELSE <<>>
        ELSE IF exclamationIndex # -1 /\ exclamationIndex > colonIndex
             THEN <<createError("INVALID_BREAKING_CHANGE_POSITION")>>
             ELSE <<>>

\* /:\s{2,}/.test(t)
multipleSpacesAfterColon(t) ==
    \E i \in 1..(Len(t) - 2) :
        t[i] = ":" /\ t[i + 1] \in WhiteSpace /\ t[i + 2] \in WhiteSpace

\* the first word cut at the first white-space character: split(/\s/)[0]
firstWordOf_anyWhitespace(s) == SubSeq(s, 1, leadingRun(s, Range(s) \ WhiteSpace))

\* trimmedDescription.split(' ')[0]
firstWordOf(s) ==
    LET sp == indexOf(s, <<" ">>)
    IN  IF sp = -1 THEN s ELSE substring(s, 0, sp)

NonImperativeWords ==
    { Chars("added"), Chars("adds"), Chars("adding"),
      Chars("updated"), Chars("updates"), Chars("updating"),
      Chars("fixed"), Chars("fixes"), Chars("fixing"),
      Chars("removed"), Chars("removes"), Chars("removing"),
      Chars("deleted"), Chars("deletes"), Chars("deleting") }

\* /^(added|...|deleting)$/i.test(w)
nonImperativePatterns(w) == toLowerCase(w) \in NonImperativeWords

tooLongError(max) ==
    [ code |-> "DESCRIPTION_TOO_LONG",
      message |-> "Description must not exceed " \o ToString(max) \o " characters",
      example |-> ERROR_EXAMPLES["DESCRIPTION_TOO_LONG"] ]

\* validateDescription with the length test of line 235 written with >=
validateDescription_tooLongFromMax(li, isStrict, max, t, description) ==
    LET cleanDescription ==
            IF startsWith(description, <<" ">>)
            THEN substringFrom(description, 1) ELSE description
        trimmedDescription == trim(cleanDescription)
        firstWord == toLowerCase(firstWordOf(trimmedDescription))
        spacing ==
            (IF ~includes(t, <<":", " ">>)
             THEN <<createError("MISSING_SPACE_AFTER_COLON")>> ELSE <<>>)
            \o
            (IF multipleSpacesAfterColon(t)
             THEN <<createError("MULTIPLE_SPACES_AFTER_COLON")>> ELSE <<>>)
    IN  IF Len(cleanDescription) = 0 \/ Len(trim(cleanDescription)) = 0
        THEN spacing \o <<createError("MISSING_DESCRIPTION")>>
        ELSE spacing
             \o (IF startsWith(cleanDescription, <<" ">>)
                 THEN <<createError("DESCRIPTION_HAS_LEADING_SPACE")>> ELSE <<>>)
             \o (IF endsWith(cleanDescription, <<" ">>)
                 THEN <<createError("DESCRIPTION_HAS_TRAILING_SPACE")>> ELSE <<>>)
             \o (IF Len(cleanDescription) >= max
                 THEN <<tooLongError(max)>> ELSE <<>>)
             \o (IF isStrict
                 THEN (IF Len(trimmedDescription) > 0
                          /\ ~test("descriptionStartsLowercase", trimmedDescription, li)
                       THEN <<createError("DESCRIPTION_NOT_LOWERCASE")>> ELSE <<>>)
                      \o (IF test("endsWithPeriod", trimmedDescription, li)
                          THEN <<createError("DESCRIPTION_ENDS_WITH_PERIOD")>> ELSE <<>>)
                      \o (IF nonImperativePatterns(firstWord)
                          THEN <<createError("NON_IMPERATIVE_MOOD")>> ELSE <<>>)
                 ELSE <<>>)

\* validateDescription without the return of line 221
validateDescription_noReturnAfterMissing(li, isStrict, max, t, description) ==
    LET cleanDescription ==
            IF startsWith(description, <<" ">>)
            THEN substringFrom(description, 1) ELSE description
        trimmedDescription == trim(cleanDescription)
        firstWord == toLowerCase(firstWordOf(trimmedDescription))
        spacing ==
            (IF ~includes(t, <<":", " ">>)
             THEN <<createError("MISSING_SPACE_AFTER_COLON")>> ELSE <<>>)
            \o
            (IF multipleSpacesAfterColon(t)
             THEN <<createError("MULTIPLE_SPACES_AFTER_COLON")>> ELSE <<>>)
    IN  spacing
        \o (IF Len(cleanDescription) = 0 \/ Len(trim(cleanDescription)) = 0
            THEN <<createError("MISSING_DESCRIPTION")>> ELSE <<>>)
        \o (IF startsWith(cleanDescription, <<" ">>)
            THEN <<createError("DESCRIPTION_HAS_LEADING_SPACE")>> ELSE <<>>)
        \o (IF endsWith(cleanDescription, <<" ">>)
            THEN <<createError("DESCRIPTION_HAS_TRAILING_SPACE")>> ELSE <<>>)
        \o (IF Len(cleanDescription) > max
            THEN <<tooLongError(max)>> ELSE <<>>)
        \o (IF isStrict
            THEN (IF Len(trimmedDescription) > 0
                     /\ ~test("descriptionStartsLowercase", trimmedDescription, li)
                  THEN <<createError("DESCRIPTION_NOT_LOWERCASE")>> ELSE <<>>)
                 \o (IF test("endsWithPeriod", trimmedDescription, li)
                     THEN <<createError("DESCRIPTION_ENDS_WITH_PERIOD")>> ELSE <<>>)
                 \o (IF nonImperativePatterns(firstWord)
                     THEN <<createError("NON_IMPERATIVE_MOOD")>> ELSE <<>>)
            ELSE <<>>)

\* validateDescription with the style rules judged on the description as
\* it stands after the removal of one leading space, without trim()
validateDescription_styleOnUntrimmed(li, isStrict, max, t, description) ==
    LET cleanDescription ==
            IF startsWith(description, <<" ">>)
            THEN substringFrom(description, 1) ELSE description
        trimmedDescription == cleanDescription
        firstWord == toLowerCase(firstWordOf(trimmedDescription))
        spacing ==
            (IF ~includes(t, <<":", " ">>)
             THEN <<createError("MISSING_SPACE_AFTER_COLON")>> ELSE <<>>)
            \o
            (IF multipleSpacesAfterColon(t)
             THEN <<createError("MULTIPLE_SPACES_AFTER_COLON")>> ELSE <<>>)
    IN  IF Len(cleanDescription) = 0 \/ Len(trim(cleanDescription)) = 0
        THEN spacing \o <<createError("MISSING_DESCRIPTION")>>
        ELSE spacing
             \o (IF startsWith(cleanDescription, <<" ">>)
                 THEN <<createError("DESCRIPTION_HAS_LEADING_SPACE")>> ELSE <<>>)
             \o (IF endsWith(cleanDescription, <<" ">>)
                 THEN <<createError("DESCRIPTION_HAS_TRAILING_SPACE")>> ELSE <<>>)
             \o (IF Len(cleanDescription) > max
                 THEN <<tooLongError(max)>> ELSE <<>>)
             \o (IF isStrict
                 THEN (IF Len(trimmedDescription) > 0
                          /\ ~test("descriptionStartsLowercase", trimmedDescription, li)
                       THEN <<createError("DESCRIPTION_NOT_LOWERCASE")>> ELSE <<>>)
                      \o (IF test("endsWithPeriod", trimmedDescription, li)
                          THEN <<createError("DESCRIPTION_ENDS_WITH_PERIOD")>> ELSE <<>>)
                      \o (IF nonImperativePatterns(firstWord)
                          THEN <<createError("NON_IMPERATIVE_MOOD")>> ELSE <<>>)
                 ELSE <<>>)

\* validateDescription with the leading and trailing space checks placed
\* among the strict mode checks
validateDescription_spacesStrictOnly(li, isStrict, max, t, description) ==
    LET cleanDescription ==
            IF startsWith(description, <<" ">>)
            THEN substringFrom(description, 1) ELSE description
        trimmedDescription == trim(cleanDescription)
        firstWord == toLowerCase(firstWordOf(trimmedDescription))
        spacing ==
            (IF ~includes(t, <<":", " ">>)
             THEN <<createError("MISSING_SPACE_AFTER_COLON")>> ELSE <<>>)
            \o
            (IF multipleSpacesAfterColon(t)
             THEN <<createError("MULTIPLE_SPACES_AFTER_COLON")>> ELSE <<>>)
    IN  IF Len(cleanDescription) = 0 \/ Len(trim(cleanDescription)) = 0
        THEN spacing \o <<createError("MISSING_DESCRIPTION")>>
        ELSE spacing
             \o (IF isStrict /\ startsWith(cleanDescription, <<" ">>)
                 THEN <<createError("DESCRIPTION_HAS_LEADING_SPACE")>> ELSE <<>>)
             \o (IF isStrict /\ endsWith(cleanDescription, <<" ">>)
                 THEN <<createError("DESCRIPTION_HAS_TRAILING_SPACE")>> ELSE <<>>)
             \o (IF Len(cleanDescription) > max
                 THEN <<tooLongError(max)>> ELSE <<>>)
             \o (IF isStrict
                 THEN (IF Len(trimmedDescription) > 0
                          /\ ~test("descriptionStartsLowercase", trimmedDescription, li)
                       THEN <<createError("DESCRIPTION_NOT_LOWERCASE")>> ELSE <<>>)
                      \o (IF test("endsWithPeriod", trimmedDescription, li)
                          THEN <<createError("DESCRIPTION_ENDS_WITH_PERIOD")>> ELSE <<>>)
                      \o (IF nonImperativePatterns(firstWord)
                          THEN <<createError("NON_IMPERATIVE_MOOD")>> ELSE <<>>)
                 ELSE <<>>)

validateDescription(li, isStrict, max, t, description) ==
    LET cleanDescription ==
            IF startsWith(description, <<" ">>)
            THEN substringFrom(description, 1) ELSE description
        trimmedDescription == trim(cleanDescription)
        firstWord == toLowerCase(firstWordOf(trimmedDescription))
        spacing ==
            (IF ~includes(t, <<":", " ">>)
             THEN <<createError("MISSING_SPACE_AFTER_COLON")>> ELSE <<>>)
            \o
            (IF multipleSpacesAfterColon(t)
             THEN <<createError("MULTIPLE_SPACES_AFTER_COLON")>> ELSE <<>>)
    IN  IF Len(cleanDescription) = 0 \/ Len(trim(cleanDescription)) = 0
        THEN spacing \o <<createError("MISSING_DESCRIPTION")>>
        ELSE spacing
             \o (IF startsWith(cleanDescription, <<" ">>)
                 THEN <<createError("DESCRIPTION_HAS_LEADING_SPACE")>> ELSE <<>>)
             \o (IF endsWith(cleanDescription, <<" ">>)
                 THEN <<createError("DESCRIPTION_HAS_TRAILING_SPACE")>> ELSE <<>>)
             \o (IF Len(cleanDescription) > max
                 THEN <<tooLongError(max)>> ELSE <<>>)
             \o (IF isStrict
                 THEN (IF Len(trimmedDescription) > 0
                          /\ ~test("descriptionStartsLowercase", trimmedDescription, li)
                       THEN <<createError("DESCRIPTION_NOT_LOWERCASE")>> ELSE <<>>)
                      \o (IF test("endsWithPeriod", trimmedDescription, li)
                          THEN <<createError("DESCRIPTION_ENDS_WITH_PERIOD")>> ELSE <<>>)
                      \o (IF nonImperativePatterns(firstWord)
                          THEN <<createError("NON_IMPERATIVE_MOOD")>> ELSE <<>>)
                 ELSE <<>>)

\* the early return with isValid computed like the final return, before the push
formatFailure_validityBeforePush(errors) ==
    [ isValid |-> Len(errors) = 0,
      errors |-> errors \o <<createError("INVALID_FORMAT")>> ]

\* the early return without the push of INVALID_FORMAT
formatFailure_withoutCode(errors) == [ isValid |-> FALSE, errors |-> errors ]

\* the result of the early return taken when parseTitle yields null
formatFailure(errors) ==
    [ isValid |-> FALSE, errors |-> errors \o <<createError("INVALID_FORMAT")>> ]

\* the result assembled after all component checks
assemble(errors) == [ isValid |-> Len(errors) = 0, errors |-> errors ]

\* validate with the character check made only once the title has parsed
validate_asciiAfterParse(li, isStrict, max, t) ==
    LET errors0 ==
            IF test("nonAscii", t, li) THEN <<createError("NON_ASCII_CHARACTERS")>> ELSE <<>>
        components == parseTitle(t)
    IN  IF components.isNull
        THEN formatFailure(<<>>)
        ELSE assemble(
                errors0
                \o validateType(components.type)
                \o validateScope(isStrict, t, components.scope)
                \o validateBreakingChange(t, components.isBreakingChange)
                \o validateDescription(li, isStrict, max, t, components.description))

\* validate with the description errors spread before the breaking-change errors
validate_descriptionBeforeBreaking(li, isStrict, max, t) ==
    LET errors0 ==
            IF test("nonAscii", t, li) THEN <<createError("NON_ASCII_CHARACTERS")>> ELSE <<>>
        components == parseTitle(t)
    IN  IF components.isNull
        THEN formatFailure(errors0)
        ELSE assemble(
                errors0
                \o validateType(components.type)
                \o validateScope(isStrict, t, components.scope)
                \o validateDescription(li, isStrict, max, t, components.description)
                \o validateBreakingChange(t, components.isBreakingChange))

validate(li, isStrict, max, t) ==
    LET errors0 ==
            IF test("nonAscii", t, li) THEN <<createError("NON_ASCII_CHARACTERS")>> ELSE <<>>
        components == parseTitle(t)
    IN  IF components.isNull
        THEN formatFailure(errors0)
        ELSE assemble(
                errors0
                \o validateType(components.type)
                \o validateScope(isStrict, t, components.scope)
                \o validateBreakingChange(t, components.isBreakingChange)
                \o validateDescription(li, isStrict, max, t, components.description))

\* lastIndex of the shared patterns after validate(t): nonAscii is tested in
\* every call, the other two in strict mode once a description is found
patternsAfter(li, isStrict, t) ==
    LET components == parseTitle(t)
        description == components.description
        cleanDescription ==
            IF startsWith(description, <<" ">>)
            THEN substringFrom(description, 1) ELSE description
        trimmedDescription == trim(cleanDescription)
        tested ==
            /\ ~components.isNull
            /\ isStrict
            /\ Len(trimmedDescription) > 0
    IN  [p \in PatternNames |->
            IF p = "nonAscii" THEN lastIndexAfterTest(p, t, li)
            ELSE IF tested THEN lastIndexAfterTest(p, trimmedDescription, li)
            ELSE li[p]]

-----------------------------------------------------------------------------
(* Inputs: the titles handed to validate                                   *)

MaxHeadTokens == 3

MaxDescTokens == 3

SmallMaxLength == 3

MaxCalls == 2

RECURSIVE Flatten(_)
Flatten(ts) == IF Len(ts) = 0 THEN <<>> ELSE Head(ts) \o Flatten(Tail(ts))

SeqsUpTo(S, n) == UNION {[1..k -> S] : k \in 0..n}

\* how a generated header starts
TypeTokens == { <<>>, Chars("feat"), Chars("Fix"), Chars("foo") }

\* pieces that follow the start of a generated header
HeadTokens == { <<"(">>, <<")">>, Chars("(a-1)"), <<"B">>, <<"!">>, <<" ">> }

\* pieces of a generated description
DescTokens ==
    { <<" ">>, <<":">>, Chars(": "), <<"x">>, <<".">>, <<"!">>, <<"\t">>,
      Chars("adds") }

Heads ==
    {ty \o Flatten(ts) : ty \in TypeTokens, ts \in SeqsUpTo(HeadTokens, MaxHeadTokens)}

Descs == {Flatten(ts) : ts \in SeqsUpTo(DescTokens, MaxDescTokens)}

FewTails == { Chars(":x"), Chars(": add x"), Chars(":  Adds x! ") }

FewHeads == { Chars("feat:"), Chars("feat: x"), Chars("Fix(a-1)!: ") }

\* the titles of the README and of the test suites
ValidExamples ==
    { Chars("feat: add user authentication"),
      Chars("fix(api): handle timeout errors"),
      Chars("feat(api)!: breaking change in api"),
      Chars("revert: undo breaking change"),
      Chars("fix!: critical security fix") }

InvalidExamples ==
    { Chars("Feature: add something"),
      Chars("feat : add something"),
      Chars("feat:add something"),
      Chars("feat(): add something"),
      Chars("feat!(api): add something"),
      Chars("feat: added something"),
      Chars("feat: Add something."),
      Chars("fea!t: add something"),
      Chars("f!eat: add something"),
      Chars("feat!: x"),
      Chars("feat(api)!: x"),
      Chars("feat!(api): x"),
      Chars("feat!!: x"),
      Chars("feat(API): add endpoint"),
      Chars("feat(user auth): add login"),
      Chars("feat: breaking change!"),
      Chars("feat add something"),
      Chars("feat: add\nfeature"),
      <<>> }

\* stands for one character above 0x7E that is no white space
NonAsciiChar == "U+4E2D"

\* c.repeat(n)
Repeat(c, n) == [i \in 1..n |-> c]

\* further titles of the test suites, and titles at the edges of the checks
BoundaryTitles ==
    { Chars("feature: add something"),
      Chars("Feat: add something"),
      Chars("feat(Auth): add login"),
      Chars("feat(api@v2): add endpoint"),
      Chars("feat: "),
      Chars("feat: add something "),
      Chars("feat: Deleting files"),
      Chars("feat: add @#$%^&*()_+-=[]{}|;:,.<>?"),
      Chars("feat: add\tfeature"),
      Chars("fix: add\rfeature"),
      Chars("feat(a:b): x"),
      Chars("feat(a!b): x"),
      Chars("feat(a)(b): x"),
      Chars("feat2: x"),
      Chars("feat((a): x"),
      Chars("feat: add ") \o <<GraveAccent>> \o Chars("x") \o <<GraveAccent>>,
      Chars("feat(a") \o <<GraveAccent>> \o Chars("b): x"),
      Chars("feat: ") \o <<"U+00A0">>,
      Chars("feat: add thing.") \o <<"U+00A0">>,
      Chars("feat: ") \o <<"U+000B">> \o Chars("add x"),
      Chars("feat: add ") \o <<NonAsciiChar>> \o Chars(" support"),
      Chars("feat\tadd"),
      <<NonAsciiChar>>,
      Chars("feat: ") \o Repeat("a", MAX_DESCRIPTION_LENGTH),
      Chars("feat: ") \o Repeat("a", MAX_DESCRIPTION_LENGTH + 1),
      Chars("feat: ") \o Repeat(" ", MAX_DESCRIPTION_LENGTH + 1) }

Examples == ValidExamples \cup InvalidExamples \cup BoundaryTitles

\* generated headers, each with a few fixed descriptions
HeadTitles == {h \o d : h \in Heads, d \in FewTails}

\* a few fixed headers, each with the generated descriptions
DescTitles == {h \o d : h \in FewHeads, d \in Descs}

Titles == Examples \cup HeadTitles \cup DescTitles

\* the generated headers are validated under the default length only
\* and the generated descriptions under the default and the small length
TitlesFor(max) ==
    IF max = MAX_DESCRIPTION_LENGTH THEN Titles
    ELSE IF max = SmallMaxLength THEN Examples \cup DescTitles
    ELSE Examples

\* values of options.maxDescriptionLength: the constructor stores any number
MaxLengths == {0, SmallMaxLength, MAX_DESCRIPTION_LENGTH}

-----------------------------------------------------------------------------
(* The state machine: a validator is constructed, then validate is called  *)

NoResult == [isValid |-> FALSE, errors |-> <<>>]

\* the validator used as a library: no action input, no event payload
NoInputs == [strict |-> <<>>, max_description_length |-> <<>>]

NoPayload == [pull_request |-> <<>>, commits |-> <<>>]

\* new ConventionalCommitValidator({strict, maxDescriptionLength}); no call yet
Init ==
    /\ strict \in BOOLEAN
    /\ maxDescriptionLength \in MaxLengths
    /\ lastIndex = FreshPatterns
    /\ title = <<>>
    /\ pc = "ready"
    /\ result = NoResult
    /\ calls = 0
    /\ inputs = NoInputs
    /\ payload = NoPayload
    /\ rpc = "idle"
    /\ titleToCheck = <<>>
    /\ failed = <<>>
    /\ info = <<>>

\* the titles of the next call: every title of the model for the first call
\* of an instance, the examples for a further call after an example
CallTitles ==
    IF calls = 0 THEN TitlesFor(maxDescriptionLength)
    ELSE IF title \in Examples THEN Examples
    ELSE {}

\* validator.validate(t)
Validate ==
    /\ calls < MaxCalls
    /\ \E t \in CallTitles :
          /\ title' = t
          /\ result' = validate(lastIndex, strict, maxDescriptionLength, t)
          /\ lastIndex' = patternsAfter(lastIndex, strict, t)
    /\ pc' = "done"
    /\ calls' = calls + 1
    /\ UNCHANGED <<strict, maxDescriptionLength>>
    /\ UNCHANGED runVars

Next == Validate

Spec == Init /\ [][Next]_vars

-----------------------------------------------------------------------------
(* The action: run() of index.ts                                           *)

MaxCommits == 2

\* the value of a decimal digit
DigitValue(c) == (CHOOSE i \in 1..Len(Chars("0123456789")) : Chars("0123456789")[i] = c) - 1

\* the number written by a string of decimal digits
RECURSIVE decimal(_)
decimal(ds) ==
    IF Len(ds) = 0 THEN 0
    ELSE 10 * decimal(SubSeq(ds, 1, Len(ds) - 1)) + DigitValue(ds[Len(ds)])

NaN == [nan |-> TRUE, value |-> 0]

\* parseInt(s, 10): leading white space, an optional sign, then the longest
\* run of digits; NaN when that run is empty
parseInt(s) ==
    LET rest == substringFrom(s, leadingRun(s, WhiteSpace))
        signed == Len(rest) > 0 /\ rest[1] \in {"+", "-"}
        body == IF signed THEN Tail(rest) ELSE rest
        n == leadingRun(body, DigitSet)
        magnitude == decimal(SubSeq(body, 1, n))
    IN  IF n = 0 THEN NaN
        ELSE [ nan |-> FALSE,
               value |-> IF signed /\ rest[1] = "-" THEN 0 - magnitude ELSE magnitude ]

\* core.getInput('strict') !== 'false'
strictMode == inputs.strict # Chars("false")

\* maxDescriptionLengthInput ? parseInt(maxDescriptionLengthInput, 10) : 50
maxDescriptionLengthOf(input) ==
    IF Len(input) > 0 THEN parseInt(input) ELSE [nan |-> FALSE, value |-> 50]

\* isNaN(maxDescriptionLength) || maxDescriptionLength <= 0
invalidMaxDescriptionLength(m) == m.nan \/ m.value <= 0

\* message.split('\n')[0]
firstLine(message) ==
    LET nl == indexOf(message, <<"\n">>)
    IN  IF nl = -1 THEN message ELSE substring(message, 0, nl)

\* one call of core.setFailed or core.info
Message(text, errors) == [text |-> text, errors |-> errors]

\* values of the input strict
StrictInputs == { <<>>, Chars("true"), Chars("false"), Chars("FALSE") }

\* values of the input max_description_length
MaxLengthInputs ==
    { <<>>, Chars("50"), Chars("3"), Chars("0"), Chars("-5"), Chars("abc"),
      Chars("12abc"), Chars("2.9") }

\* titles of pull requests
PullRequestTitles ==
    { Chars("feat: add user authentication"),
      Chars("feat: x"),
      Chars("feat: add a b c"),
      Chars("fix(api)!: Adds x."),
      Chars("no colon"),
      <<>> }

\* messages of commits
CommitMessages ==
    { Chars("feat: add x\n\nbody: text"),
      Chars("fix: y"),
      Chars("Feat: z"),
      Chars("WIP") }

\* payload.pull_request: absent, with a title, or without the title field
PullRequests ==
    {<<>>, << [title |-> <<>>] >>}
        \cup { << [title |-> <<t>>] >> : t \in PullRequestTitles }

\* the commits array of a push event, oldest commit first
CommitList(messages) ==
    [i \in 1..Len(messages) |-> [message |-> messages[i], timestamp |-> i]]

\* payload.commits: absent, or an array of up to MaxCommits commits
CommitArrays ==
    {<<>>} \cup { <<CommitList(ms)>> : ms \in SeqsUpTo(CommitMessages, MaxCommits) }

\* pushes with every commit array, pull request events with or without commits
Payloads ==
    { [pull_request |-> <<>>, commits |-> cs] : cs \in CommitArrays }
        \cup { [pull_request |-> pr, commits |-> cs] :
                 pr \in PullRequests,
                 cs \in {<<>>, <<CommitList(<<Chars("fix: y")>>)>>} }

\* the action starts: inputs and payload are given, no validator exists yet
RunInit ==
    /\ inputs \in [strict : StrictInputs, max_description_length : MaxLengthInputs]
    /\ payload \in Payloads
    /\ rpc = "start"
    /\ titleToCheck = <<>>
    /\ failed = <<>>
    /\ info = <<>>
    /\ strict = TRUE
    /\ maxDescriptionLength = MAX_DESCRIPTION_LENGTH
    /\ lastIndex = FreshPatterns
    /\ title = <<>>
    /\ pc = "none"
    /\ result = NoResult
    /\ calls = 0

\* lines 21-34 without the return that follows core.setFailed
run_getInputs_noReturn ==
    /\ rpc = "start"
    /\ IF invalidMaxDescriptionLength(maxDescriptionLengthOf(inputs.max_description_length))
       THEN failed' = Append(failed,
                Message("max_description_length must be a positive number", <<>>))
       ELSE failed' = failed
    /\ rpc' = "configured"
    /\ UNCHANGED <<inputs, payload, titleToCheck, info>>
    /\ UNCHANGED validatorVars

\* lines 21-34: the inputs are read, an invalid maximum ends the run
run_getInputs ==
    /\ rpc = "start"
    /\ IF invalidMaxDescriptionLength(maxDescriptionLengthOf(inputs.max_description_length))
       THEN /\ failed' = Append(failed,
                    Message("max_description_length must be a positive number", <<>>))
            /\ rpc' = "exit"
       ELSE /\ failed' = failed
            /\ rpc' = "configured"
    /\ UNCHANGED <<inputs, payload, titleToCheck, info>>
    /\ UNCHANGED validatorVars

\* lines 36-49 with the commits looked at before the pull request
run_getTitle_commitsFirst ==
    /\ rpc = "configured"
    /\ IF payload.commits # <<>> /\ Len(payload.commits[1]) > 0
       THEN /\ titleToCheck' = << <<firstLine(payload.commits[1][1].message)>> >>
            /\ info' = Append(info, Message("Checking title", <<>>))
            /\ failed' = failed
            /\ rpc' = "titled"
       ELSE IF payload.pull_request # <<>>
       THEN /\ titleToCheck' = << payload.pull_request[1].title >>
            /\ info' = Append(info, Message("Checking title", <<>>))
            /\ failed' = failed
            /\ rpc' = "titled"
       ELSE /\ failed' = Append(failed,
                    Message("Unable to get PR title or commit message", <<>>))
            /\ rpc' = "exit"
            /\ UNCHANGED <<titleToCheck, info>>
    /\ UNCHANGED <<inputs, payload>>
    /\ UNCHANGED validatorVars

\* lines 36-49: the title is taken from the pull request, else from commits[0]
run_getTitle ==
    /\ rpc = "configured"
    /\ IF payload.pull_request # <<>>
       THEN /\ titleToCheck' = << payload.pull_request[1].title >>
            /\ info' = Append(info, Message("Checking title", <<>>))
            /\ failed' = failed
            /\ rpc' = "titled"
       ELSE IF payload.commits # <<>> /\ Len(payload.commits[1]) > 0
       THEN /\ titleToCheck' = << <<firstLine(payload.commits[1][1].message)>> >>
            /\ info' = Append(info, Message("Checking title", <<>>))
            /\ failed' = failed
            /\ rpc' = "titled"
       ELSE /\ failed' = Append(failed,
                    Message("Unable to get PR title or commit message", <<>>))
            /\ rpc' = "exit"
            /\ UNCHANGED <<titleToCheck, info>>
    /\ UNCHANGED <<inputs, payload>>
    /\ UNCHANGED validatorVars

\* lines 51-112: the validator is constructed and called; an invalid title
\* fails the run with the list of its errors, a valid one is reported with
\* core.info; a title that is undefined makes title.match throw inside
\* validate, and the catch block fails the run
run_validate ==
    /\ rpc = "titled"
    /\ strict' = strictMode
    /\ maxDescriptionLength' = maxDescriptionLengthOf(inputs.max_description_length).value
    /\ calls' = calls + 1
    /\ IF titleToCheck[1] = <<>>
       THEN /\ pc' = "threw"
            /\ failed' = Append(failed, Message("Unexpected error", <<>>))
            /\ UNCHANGED <<title, result, lastIndex, info>>
       ELSE LET t == titleToCheck[1][1]
                r == validate(lastIndex, strictMode,
                        maxDescriptionLengthOf(inputs.max_description_length).value, t)
            IN  /\ title' = t
                /\ result' = r
                /\ lastIndex' = patternsAfter(lastIndex, strictMode, t)
                /\ pc' = "done"
                /\ IF ~r.isValid
                   THEN /\ failed' = Append(failed,
                                Message("Title does not conform to Conventional Commits specification",
                                        [i \in 1..Len(r.errors) |-> r.errors[i].message]))
                        /\ info' = info
                   ELSE /\ info' = Append(info,
                                Message("Title conforms to Conventional Commits specification", <<>>))
                        /\ failed' = failed
    /\ rpc' = "exit"
    /\ UNCHANGED <<inputs, payload, titleToCheck>>

RunNext == run_getInputs \/ run_getTitle \/ run_validate

RunSpec == RunInit /\ [][RunNext]_vars

(* Vocabulary of the properties                                            *)

CodeSeq(r) == [i \in 1..Len(r.errors) |-> r.errors[i].code]

Codes(r) == Range(CodeSeq(r))

Returned == pc = "done"

Parsed == ~parseTitle(title).isNull

\* the text before the first colon of the title
BeforeColon == substring(title, 0, indexOf(title, <<":">>))

\* the text after the first colon of the title
AfterColon == substringFrom(title, indexOf(title, <<":">>) + 1)

has(code) == code \in Codes(result)

-----------------------------------------------------------------------------
(* C1..C10                                                                 *)

\* C1: whatever the title and the configuration, the returned result has
\* isValid = TRUE exactly when its errors list is empty; this includes the
\* early return taken when the title cannot be parsed.
C1_ValidIffNoErrors ==
    Returned => (result.isValid <=> Len(result.errors) = 0)

C1_Witness ==
    /\ Returned
    /\ ~Parsed
    /\ ~result.isValid
    /\ Len(result.errors) > 0

\* C2: with strict = TRUE and maxDescriptionLength = 50 each of the five
\* example titles validates with isValid = TRUE and no error.
C2_ValidExamplesAccepted ==
    (Returned /\ strict /\ maxDescriptionLength = 50 /\ title \in ValidExamples)
        => (result.isValid /\ result.errors = <<>>)

C2_Witness ==
    /\ Returned
    /\ strict
    /\ maxDescriptionLength = 50
    /\ title = Chars("feat(api)!: breaking change in api")
    /\ result.isValid

\* the header forms C3 names: an allowed lowercase type, an optional non-empty
\* scope over [a-z0-9_-] in parentheses, an optional "!" directly before the colon
WellFormedHeader(h) ==
    LET body == IF endsWith(h, <<"!">>) THEN SubSeq(h, 1, Len(h) - 1) ELSE h
        n == leadingRun(body, LowerSet)
        type == SubSeq(body, 1, n)
        group == SubSeq(body, n + 1, Len(body))
    IN  /\ \E i \in 1..Len(ALLOWED_TYPES) : ALLOWED_TYPES[i] = type
        /\ \/ Len(group) = 0
           \/ /\ Len(group) >= 3
              /\ group[1] = "("
              /\ group[Len(group)] = ")"
              /\ \A i \in 2..(Len(group) - 1) :
                    group[i] \in StrictScopeChars

\* the descriptions C3 names
WellFormedDescription(d) ==
    /\ Len(d) >= 1
    /\ Len(d) <= 50
    /\ \A i \in 1..Len(d) : d[i] \in PrintableSet
    /\ d[1] \in LowerSet
    /\ d[Len(d)] # " "
    /\ d[Len(d)] # "."
    /\ toLowerCase(firstWordOf(d)) \notin NonImperativeWords
    /\ \A i \in 1..Len(d) : d[i] # "!"

\* title is header, colon, exactly one space, description
WellFormedTitle(t) ==
    LET colon == indexOf(t, <<":">>)
    IN  /\ colon # -1
        /\ WellFormedHeader(substring(t, 0, colon))
        /\ occursAt(t, <<" ">>, colon + 1)
        /\ WellFormedDescription(substringFrom(t, colon + 2))

\* C3: in strict mode with maxDescriptionLength = 50 every title of the form
\* type[(scope)][!]: description with an allowed type, a well-formed scope, a
\* well-placed "!" and a well-formed description is accepted without errors.
C3_WellFormedAccepted ==
    (Returned /\ strict /\ maxDescriptionLength = 50 /\ WellFormedTitle(title))
        => (result.isValid /\ result.errors = <<>>)

\* C4: an accepted title has exactly one space right after its first colon,
\* followed by a character that is not a space; in particular no title whose
\* first colon is directly followed by a non-space character is accepted.
C4_AcceptedHasOneSpaceAfterColon ==
    (Returned /\ result.isValid)
        => /\ Len(AfterColon) >= 2
           /\ AfterColon[1] = " "
           /\ AfterColon[2] # " "

\* C5: when the structural parse fails the call returns at once: isValid is
\* FALSE, INVALID_FORMAT is the last error and only NON_ASCII_CHARACTERS can
\* precede it; a title of printable ASCII whose colon is preceded by a space
\* fails to parse and gets exactly the list <<INVALID_FORMAT>>.
C5_ParseFailureReturnsAtOnce ==
    Returned =>
        IF Parsed
        THEN /\ ~has("INVALID_FORMAT")
             /\ ~endsWith(BeforeColon, <<" ">>)
        ELSE /\ ~result.isValid
             /\ Len(result.errors) >= 1
             /\ CodeSeq(result)[Len(result.errors)] = "INVALID_FORMAT"
             /\ Codes(result) \subseteq {"NON_ASCII_CHARACTERS", "INVALID_FORMAT"}
             /\ ~nonAscii(title) => CodeSeq(result) = <<"INVALID_FORMAT">>

C5_Witness ==
    /\ Returned
    /\ title = Chars("feat : add something")
    /\ CodeSeq(result) = <<"INVALID_FORMAT">>

\* C6: disabling strict never adds an error code: the codes of the lenient
\* result are among the codes the strict validator returns for the same
\* title and the same maxDescriptionLength.
C6_LenientCodesWithinStrict ==
    (Returned /\ ~strict)
        => Codes(result) \subseteq Codes(validate(lastIndex, TRUE, maxDescriptionLength, title))

C6_Witness ==
    /\ Returned
    /\ ~strict
    /\ has("INVALID_SCOPE_FORMAT")
    /\ Codes(result) # Codes(validate(lastIndex, TRUE, maxDescriptionLength, title))

StyleCodes ==
    { "DESCRIPTION_NOT_LOWERCASE", "DESCRIPTION_ENDS_WITH_PERIOD",
      "NON_IMPERATIVE_MOOD", "SCOPE_NOT_LOWERCASE" }

\* the codes of the strict result that the lenient result lacks
RemovedByLenient ==
    Codes(result) \ Codes(validate(lastIndex, FALSE, maxDescriptionLength, title))

\* C7 as stated: every code that strict reports and lenient does not is one of
\* DESCRIPTION_NOT_LOWERCASE, DESCRIPTION_ENDS_WITH_PERIOD, NON_IMPERATIVE_MOOD,
\* SCOPE_NOT_LOWERCASE.
C7_OnlyStyleCodesRemoved ==
    (Returned /\ strict) => RemovedByLenient \subseteq StyleCodes

\* C7 amended: every code that strict reports and lenient does not is one of
\* the four style codes or INVALID_SCOPE_FORMAT, and INVALID_SCOPE_FORMAT is
\* such a code exactly when SCOPE_NOT_LOWERCASE is reported and the scope
\* is made of letters, digits, "_" and "-" only.
C7_StyleOrScopeFormatRemoved ==
    (Returned /\ strict) =>
        /\ RemovedByLenient \subseteq StyleCodes \cup {"INVALID_SCOPE_FORMAT"}
        /\ "INVALID_SCOPE_FORMAT" \in RemovedByLenient
              <=> /\ has("SCOPE_NOT_LOWERCASE")
                  /\ lenientScopeFormat(parseTitle(title).scope[1])

C7_Witness ==
    /\ Returned
    /\ strict
    /\ "INVALID_SCOPE_FORMAT" \in RemovedByLenient
    /\ "SCOPE_NOT_LOWERCASE" \in RemovedByLenient
    /\ "NON_IMPERATIVE_MOOD" \in RemovedByLenient

\* a "!" stands between two letters of the leading run of letters and "!"
\* of the title, before the first colon
BangInsideType(t) ==
    \E i \in 2..(Len(t) - 1) :
        /\ t[i] = "!"
        /\ t[i + 1] \in LetterSet
        /\ \A j \in 1..(i - 1) : t[j] \in LetterSet \cup {"!"}
        /\ t[1] \in LetterSet
        /\ i < indexOf(t, <<":">>)

\* C8: a title with a "!" embedded inside the type letters before the colon
\* is reported with INVALID_BREAKING_CHANGE_POSITION.
C8_BangInsideTypeReported ==
    (Returned /\ BangInsideType(title)) => has("INVALID_BREAKING_CHANGE_POSITION")

\* h is letters, at most one parenthesised group, then a single "!"
ExactBreakingHeader(h) ==
    LET body == SubSeq(h, 1, Len(h) - 1)
        n == leadingRun(body, LetterSet)
        group == SubSeq(body, n + 1, Len(body))
    IN  /\ Len(h) >= 2
        /\ h[Len(h)] = "!"
        /\ n >= 1
        /\ \A i \in 1..Len(body) : body[i] # "!"
        /\ \/ Len(group) = 0
           \/ /\ Len(group) >= 2
              /\ group[1] = "("
              /\ group[Len(group)] = ")"
              /\ \A i \in 2..(Len(group) - 1) : group[i] # ")"

\* C9: for a title that parses and has a "!" before its first colon,
\* INVALID_BREAKING_CHANGE_POSITION is reported exactly when the text before
\* the colon is not letters, at most one parenthesised group, one "!".
C9_BreakingMarkerPosition ==
    (Returned /\ Parsed /\ "!" \in Range(BeforeColon))
        => (has("INVALID_BREAKING_CHANGE_POSITION") <=> ~ExactBreakingHeader(BeforeColon))

C9_Witness ==
    /\ Returned
    /\ Parsed
    /\ title = Chars("feat!(api): x")
    /\ has("INVALID_BREAKING_CHANGE_POSITION")

\* C10: for a title that parses and has no "!" before its first colon,
\* INVALID_BREAKING_CHANGE_POSITION is reported exactly when a "!" occurs
\* after the first colon.
C10_MarkerInDescription ==
    (Returned /\ Parsed /\ "!" \notin Range(BeforeColon))
        => (has("INVALID_BREAKING_CHANGE_POSITION") <=> "!" \in Range(AfterColon))

C10_Witness ==
    /\ Returned
    /\ Parsed
    /\ "!" \notin Range(BeforeColon)
    /\ "!" \in Range(AfterColon)
    /\ has("INVALID_BREAKING_CHANGE_POSITION")

-----------------------------------------------------------------------------
(* C11..C20                                                                *)

\* the leading letters of the title
TypeText == SubSeq(title, 1, leadingRun(title, LetterSet))

AllowedTypeNames ==
    { Chars("feat"), Chars("fix"), Chars("docs"), Chars("style"),
      Chars("refactor"), Chars("perf"), Chars("test"), Chars("build"),
      Chars("ci"), Chars("chore"), Chars("revert") }

\* C11: for a title that parses, TYPE_NOT_LOWERCASE is reported exactly when
\* the type has an uppercase letter and INVALID_TYPE exactly when the
\* lower-cased type is not one of the eleven allowed names, each whatever the
\* other; "Feature: ..." gets both, "Feat: ..." only TYPE_NOT_LOWERCASE.
C11_TypeErrorsIndependent ==
    (Returned /\ Parsed) =>
        /\ has("TYPE_NOT_LOWERCASE") <=> (\E i \in 1..Len(TypeText) : TypeText[i] \in UpperSet)
        /\ has("INVALID_TYPE") <=> toLowerCase(TypeText) \notin AllowedTypeNames
        /\ startsWith(title, Chars("Feature:"))
              => (has("TYPE_NOT_LOWERCASE") /\ has("INVALID_TYPE"))
        /\ startsWith(title, Chars("Feat:"))
              => (has("TYPE_NOT_LOWERCASE") /\ ~has("INVALID_TYPE"))

C11_Witness ==
    /\ Returned
    /\ title = Chars("Feature: add something")
    /\ has("TYPE_NOT_LOWERCASE")
    /\ has("INVALID_TYPE")

\* s is one or more characters, all of them in set
AllIn(s, set) == Len(s) > 0 /\ \A i \in 1..Len(s) : s[i] \in set

\* C12: for a title whose parse captures a non-empty scope,
\* INVALID_SCOPE_FORMAT is reported exactly when the scope is not made, in
\* full, of [a-z0-9_-] (strict) or of [a-zA-Z0-9_-] (lenient), and
\* SCOPE_NOT_LOWERCASE exactly when strict is on and the scope has an
\* uppercase letter.
C12_ScopeFormatAndCase ==
    LET c == parseTitle(title)
        scope == c.scope[1]
    IN  (Returned /\ ~c.isNull /\ c.scope # <<>> /\ Len(c.scope[1]) > 0) =>
            /\ has("INVALID_SCOPE_FORMAT")
                  <=> IF strict
                      THEN ~AllIn(scope, LowerSet \cup DigitSet \cup {"_", "-"})
                      ELSE ~AllIn(scope, LetterSet \cup DigitSet \cup {"_", "-"})
            /\ has("SCOPE_NOT_LOWERCASE")
                  <=> (strict /\ \E i \in 1..Len(scope) : scope[i] \in UpperSet)

C12_Witness ==
    /\ Returned
    /\ strict
    /\ title = Chars("feat(API): add endpoint")
    /\ has("SCOPE_NOT_LOWERCASE")
    /\ has("INVALID_SCOPE_FORMAT")

\* h is a type followed by the empty group "()", with "!" marks allowed
\* before and after the group and nothing else
EmptyScopeHeader(h) ==
    LET n == leadingRun(h, LetterSet)
        rest == SubSeq(h, n + 1, Len(h))
        a == leadingRun(rest, {"!"})
    IN  /\ n >= 1
        /\ occursAt(rest, <<"(", ")">>, a)
        /\ \A i \in (a + 3)..Len(rest) : rest[i] = "!"

\* t with the scope "a" written into its first "()"
WithScopeA(t) ==
    LET open == indexOf(t, <<"(", ")">>)
    IN  SubSeq(t, 1, open + 1) \o <<"a">> \o SubSeq(t, open + 2, Len(t))

\* C13: a title whose header is a type with the empty scope group "()"
\* parses and is reported with EMPTY_SCOPE and with neither
\* SCOPE_NOT_LOWERCASE nor INVALID_SCOPE_FORMAT; its other errors are, in the
\* same order, those of the same title with a valid scope in the group.
C13_EmptyScopeReported ==
    (Returned /\ EmptyScopeHeader(BeforeColon)) =>
        /\ Parsed
        /\ has("EMPTY_SCOPE")
        /\ ~has("SCOPE_NOT_LOWERCASE")
        /\ ~has("INVALID_SCOPE_FORMAT")
        /\ SelectSeq(CodeSeq(result), LAMBDA c : c # "EMPTY_SCOPE")
              = CodeSeq(validate(lastIndex, strict, maxDescriptionLength, WithScopeA(title)))

C13_Witness ==
    /\ Returned
    /\ EmptyScopeHeader(BeforeColon)
    /\ has("EMPTY_SCOPE")
    /\ has("TYPE_NOT_LOWERCASE")
    /\ has("INVALID_BREAKING_CHANGE_POSITION")
    /\ has("MISSING_SPACE_AFTER_COLON")

\* the text after the first colon without its first character when that is a space
CleanDescription ==
    IF Len(AfterColon) > 0 /\ AfterColon[1] = " " THEN Tail(AfterColon) ELSE AfterColon

\* s is empty or white space only
Blank(s) == \A i \in 1..Len(s) : s[i] \in WhiteSpace

\* the entries of the result with the code DESCRIPTION_TOO_LONG
TooLongEntries ==
    SelectSeq(result.errors, LAMBDA e : e.code = "DESCRIPTION_TOO_LONG")

\* C14 as stated: for a title that parses, DESCRIPTION_TOO_LONG is reported
\* exactly when the text after the first colon, less one leading space, has
\* more than maxDescriptionLength characters.
C14_TooLongIffOverMax ==
    (Returned /\ Parsed) =>
        (has("DESCRIPTION_TOO_LONG") <=> Len(CleanDescription) > maxDescriptionLength)

\* C14 amended: for a title that parses, DESCRIPTION_TOO_LONG is reported
\* exactly when the text after the first colon, less one leading space, is not
\* blank and has more than maxDescriptionLength characters (exactly
\* maxDescriptionLength characters do not trigger it, one more does), and its
\* message names maxDescriptionLength.
C14_TooLongIffNonBlankOverMax ==
    (Returned /\ Parsed) =>
        /\ has("DESCRIPTION_TOO_LONG")
              <=> (~Blank(CleanDescription)
                   /\ Len(CleanDescription) >= maxDescriptionLength + 1)
        /\ has("DESCRIPTION_TOO_LONG") =>
              /\ Len(TooLongEntries) = 1
              /\ TooLongEntries[1].message =
                    "Description must not exceed "
                        \o ToString(maxDescriptionLength) \o " characters"

C14_Witness ==
    /\ Returned
    /\ Parsed
    /\ ~Blank(CleanDescription)
    /\ Len(CleanDescription) = maxDescriptionLength + 1
    /\ has("DESCRIPTION_TOO_LONG")
    /\ maxDescriptionLength = MAX_DESCRIPTION_LENGTH

\* the codes of the description rules that follow the MISSING_DESCRIPTION test
LaterDescriptionCodes ==
    { "DESCRIPTION_HAS_LEADING_SPACE", "DESCRIPTION_HAS_TRAILING_SPACE",
      "DESCRIPTION_TOO_LONG", "DESCRIPTION_NOT_LOWERCASE",
      "DESCRIPTION_ENDS_WITH_PERIOD", "NON_IMPERATIVE_MOOD" }

\* C15: for a title that parses, when the text after the first colon, less
\* at most one leading space, is empty or white space only,
\* MISSING_DESCRIPTION is reported and none of the six later description
\* codes is; otherwise MISSING_DESCRIPTION is not reported.
C15_MissingDescriptionStopsChecks ==
    (Returned /\ Parsed) =>
        IF Blank(CleanDescription)
        THEN /\ has("MISSING_DESCRIPTION")
             /\ Codes(result) \cap LaterDescriptionCodes = {}
        ELSE ~has("MISSING_DESCRIPTION")

C15_Witness ==
    /\ Returned
    /\ Parsed
    /\ strict
    /\ Blank(CleanDescription)
    /\ Len(CleanDescription) > maxDescriptionLength
    /\ CleanDescription[1] = " "
    /\ has("MISSING_DESCRIPTION")

\* C16: NON_ASCII_CHARACTERS is reported exactly when the title has a
\* character outside 0x20..0x7E (a tab, a newline, a carriage return, a
\* character above 0x7E), whether the title parses or not, and when it is
\* reported it is the first entry of the errors list.
C16_NonAsciiReportedFirst ==
    Returned =>
        /\ has("NON_ASCII_CHARACTERS")
              <=> (\E i \in 1..Len(title) : title[i] \notin PrintableSet)
        /\ (\E i \in 1..Len(title) : title[i] \in {"\t", "\n", "\r", NonAsciiChar})
              => has("NON_ASCII_CHARACTERS")
        /\ has("NON_ASCII_CHARACTERS")
              => CodeSeq(result)[1] = "NON_ASCII_CHARACTERS"

C16_Witness ==
    /\ Returned
    /\ ~Parsed
    /\ CodeSeq(result) = <<"NON_ASCII_CHARACTERS", "INVALID_FORMAT">>

NonImperativeForms ==
    { Chars("added"), Chars("adds"), Chars("adding"),
      Chars("updated"), Chars("updates"), Chars("updating"),
      Chars("fixed"), Chars("fixes"), Chars("fixing"),
      Chars("removed"), Chars("removes"), Chars("removing"),
      Chars("deleted"), Chars("deletes"), Chars("deleting") }

\* the trimmed description up to its first space
FirstWord ==
    LET d == trim(CleanDescription)
    IN  SubSeq(d, 1, leadingRun(d, Range(d) \ {" "}))

\* C17: in strict mode, for a title that parses with a description that is
\* not blank, NON_IMPERATIVE_MOOD is reported exactly when the first word of
\* the trimmed description, lower-cased, is one of the fifteen listed verb
\* forms; in lenient mode it is never reported.
C17_NonImperativeFirstWord ==
    Returned =>
        IF strict
        THEN (Parsed /\ ~Blank(CleanDescription)) =>
                (has("NON_IMPERATIVE_MOOD")
                    <=> toLowerCase(FirstWord) \in NonImperativeForms)
        ELSE ~has("NON_IMPERATIVE_MOOD")

C17_Witness ==
    /\ Returned
    /\ strict
    /\ Parsed
    /\ FirstWord = Chars("Adds")
    /\ Len(trim(CleanDescription)) > Len(FirstWord)
    /\ has("NON_IMPERATIVE_MOOD")

EvaluationOrder ==
    << "NON_ASCII_CHARACTERS", "INVALID_FORMAT", "TYPE_NOT_LOWERCASE",
       "INVALID_TYPE", "EMPTY_SCOPE", "SCOPE_NOT_LOWERCASE",
       "INVALID_SCOPE_FORMAT", "INVALID_BREAKING_CHANGE_POSITION",
       "MISSING_SPACE_AFTER_COLON", "MULTIPLE_SPACES_AFTER_COLON",
       "MISSING_DESCRIPTION", "DESCRIPTION_HAS_LEADING_SPACE",
       "DESCRIPTION_HAS_TRAILING_SPACE", "DESCRIPTION_TOO_LONG",
       "DESCRIPTION_NOT_LOWERCASE", "DESCRIPTION_ENDS_WITH_PERIOD",
       "NON_IMPERATIVE_MOOD" >>

\* the place of a code in EvaluationOrder
Place(code) == CHOOSE k \in 1..Len(EvaluationOrder) : EvaluationOrder[k] = code

\* C18: every code of a result is one of the seventeen of the evaluation
\* order, two different codes of a result stand in the errors list in the
\* order of that sequence, and the alternatives of the sequence exclude each
\* other: INVALID_FORMAT comes with no code but NON_ASCII_CHARACTERS,
\* EMPTY_SCOPE with neither of the two other scope codes, and
\* MISSING_DESCRIPTION with none of the three description codes that follow it.
C18_ErrorsInEvaluationOrder ==
    Returned =>
        LET codes == CodeSeq(result)
        IN  /\ Range(codes) \subseteq Range(EvaluationOrder)
            /\ \A i, j \in 1..Len(codes) :
                  (i < j /\ codes[i] # codes[j]) => Place(codes[i]) < Place(codes[j])
            /\ has("INVALID_FORMAT") =>
                  Range(codes) \subseteq {"NON_ASCII_CHARACTERS", "INVALID_FORMAT"}
            /\ has("EMPTY_SCOPE") =>
                  Range(codes) \cap {"SCOPE_NOT_LOWERCASE", "INVALID_SCOPE_FORMAT"} = {}
            /\ has("MISSING_DESCRIPTION") =>
                  Range(codes) \cap { "DESCRIPTION_HAS_LEADING_SPACE",
                                      "DESCRIPTION_HAS_TRAILING_SPACE",
                                      "DESCRIPTION_TOO_LONG" } = {}

C18_Witness ==
    /\ Returned
    /\ CodeSeq(result) =
          << "TYPE_NOT_LOWERCASE", "SCOPE_NOT_LOWERCASE", "INVALID_SCOPE_FORMAT",
             "INVALID_BREAKING_CHANGE_POSITION", "MULTIPLE_SPACES_AFTER_COLON",
             "DESCRIPTION_HAS_LEADING_SPACE", "DESCRIPTION_HAS_TRAILING_SPACE",
             "DESCRIPTION_NOT_LOWERCASE", "NON_IMPERATIVE_MOOD" >>

\* C19: whatever calls were made before on the instance, the result of a
\* call equals the result a validator with the same strict and
\* maxDescriptionLength returns for that title as its first call on freshly
\* loaded pattern tables, and no call changes strict, maxDescriptionLength
\* or the lastIndex of a shared pattern.
C19_HistoryIndependent ==
    /\ [](Returned =>
            result = validate(FreshPatterns, strict, maxDescriptionLength, title))
    /\ [][ /\ strict' = strict
           /\ maxDescriptionLength' = maxDescriptionLength
           /\ lastIndex' = lastIndex ]_vars

C19_Witness ==
    /\ Returned
    /\ calls >= 2
    /\ strict
    /\ has("NON_ASCII_CHARACTERS")
    /\ Parsed
    /\ lastIndex = FreshPatterns

\* e is a ValidationError built from the tables of the rules
WellFormedError(e) ==
    /\ DOMAIN e = {"code", "message", "example"}
    /\ e.code \in ERROR_CODES
    /\ e.example = ERROR_EXAMPLES[e.code]
    /\ \/ e.message = ERROR_MESSAGES[e.code]
       \/ /\ e.code = "DESCRIPTION_TOO_LONG"
          /\ e.message = "Description must not exceed "
                            \o ToString(maxDescriptionLength) \o " characters"

\* C20: every call returns a ValidationResult: a Boolean isValid and a list
\* of well-formed errors; malformed input comes back as error codes: the
\* empty title as INVALID_FORMAT alone, a title without a colon with
\* INVALID_FORMAT as its last error, a title with a control or non-ASCII
\* character with NON_ASCII_CHARACTERS, and no result is invalid without an
\* error.
C20_MalformedInputAsErrorCodes ==
    Returned =>
        /\ DOMAIN result = {"isValid", "errors"}
        /\ result.isValid \in BOOLEAN
        /\ DOMAIN result.errors = 1..Len(result.errors)
        /\ \A i \in 1..Len(result.errors) : WellFormedError(result.errors[i])
        /\ ~result.isValid => Len(result.errors) >= 1
        /\ Len(title) = 0 => CodeSeq(result) = <<"INVALID_FORMAT">>
        /\ ":" \notin Range(title) =>
              /\ ~result.isValid
              /\ Len(result.errors) >= 1
              /\ result.errors[Len(result.errors)].code = "INVALID_FORMAT"
        /\ (\E i \in 1..Len(title) : title[i] \notin PrintableSet) =>
              /\ ~result.isValid
              /\ has("NON_ASCII_CHARACTERS")

C20_Witness ==
    /\ Returned
    /\ Len(title) = 0
    /\ ~result.isValid
    /\ CodeSeq(result) = <<"INVALID_FORMAT">>

-----------------------------------------------------------------------------
(* C21..C30                                                                *)

\* run() has finished
Exited == rpc = "exit"

\* the input max_description_length is given and is not a positive number:
\* after an optional sign it does not start with a digit, or it has a minus
\* sign, or its leading digits are all zeros
InvalidConfiguration ==
    LET m == inputs.max_description_length
        body == IF Len(m) > 0 /\ m[1] \in {"+", "-"} THEN Tail(m) ELSE m
        digits == SubSeq(body, 1, leadingRun(body, DigitSet))
    IN  /\ Len(m) > 0
        /\ \/ Len(digits) = 0
           \/ m[1] = "-"
           \/ \A i \in 1..Len(digits) : digits[i] = "0"

\* the payload has neither a pull request nor a commit
NoTitleInPayload ==
    /\ payload.pull_request = <<>>
    /\ payload.commits = <<>> \/ payload.commits = << <<>> >>

\* core.info has reported the title as conforming
SuccessReported ==
    \E i \in 1..Len(info) :
        info[i].text = "Title conforms to Conventional Commits specification"

\* C21: a finished run has called setFailed exactly when the configuration
\* is invalid, or the payload offers no title, or validate returned
\* isValid = FALSE, or an exception was caught; every other finished run has
\* reported success and has not called setFailed; no run emits both, none
\* emits either twice, and nothing is emitted before the run ends.
C21_FailureOrSuccess ==
    /\ Len(failed) <= 1
    /\ ~(Len(failed) >= 1 /\ SuccessReported)
    /\ ~Exited => (failed = <<>> /\ ~SuccessReported)
    /\ Exited =>
          /\ Len(failed) = 1
                <=> \/ InvalidConfiguration
                    \/ NoTitleInPayload
                    \/ pc = "done" /\ ~result.isValid
                    \/ pc = "threw"
          /\ SuccessReported <=> failed = <<>>
          /\ SuccessReported => (pc = "done" /\ result.isValid)

C21_Witness ==
    /\ Exited
    /\ ~InvalidConfiguration
    /\ ~NoTitleInPayload
    /\ pc = "done"
    /\ ~result.isValid
    /\ Len(failed) = 1
    /\ Len(failed[1].errors) = Len(result.errors)
    /\ ~SuccessReported

\* the text of s before its first newline
UpToNewline(s) == SubSeq(s, 1, leadingRun(s, Range(s) \ {"\n"}))

\* the commits of the payload: the empty list when the field is absent
PayloadCommits == IF payload.commits = <<>> THEN <<>> ELSE payload.commits[1]

\* C22: when validate has been called, its argument is the title of the
\* pull request if the payload has one, whether or not it has commits too,
\* and otherwise the text before the first newline of the message of a commit
\* of the payload; a payload with neither makes the run fail with "Unable to
\* get PR title or commit message" and validate is not called.
C22_TitleSource ==
    /\ pc = "done" =>
          IF payload.pull_request # <<>>
          THEN payload.pull_request[1].title = <<title>>
          ELSE \E i \in 1..Len(PayloadCommits) :
                  title = UpToNewline(PayloadCommits[i].message)
    /\ NoTitleInPayload =>
          /\ calls = 0
          /\ pc = "none"
          /\ (Exited /\ ~InvalidConfiguration) =>
                (/\ Len(failed) = 1
                 /\ failed[1].text = "Unable to get PR title or commit message")

C22_Witness ==
    /\ pc = "done"
    /\ payload.pull_request # <<>>
    /\ Len(PayloadCommits) > 0
    /\ payload.pull_request[1].title = <<title>>
    /\ title # UpToNewline(PayloadCommits[1].message)

\* the commit of the payload with the latest timestamp
MostRecentCommit ==
    CHOOSE c \in Range(PayloadCommits) :
        \A d \in Range(PayloadCommits) : d.timestamp <= c.timestamp

\* C23: for a payload without a pull request and with one or more commits,
\* the validated title is the first line of the message of the most recent
\* of these commits.
C23_MostRecentCommitValidated ==
    (pc = "done" /\ payload.pull_request = <<>> /\ Len(PayloadCommits) >= 1)
        => title = UpToNewline(MostRecentCommit.message)

\* C24: whenever validate has returned, the maximum description length it
\* used is a positive integer, whether the validator was built by run() or
\* constructed directly.
C24_ValidatedAgainstPositiveMax ==
    pc = "done" => maxDescriptionLength >= 1

\* g is one parenthesised group whose content has no ")"
OneGroup(g) ==
    /\ Len(g) >= 2
    /\ g[1] = "("
    /\ g[Len(g)] = ")"
    /\ \A i \in 2..(Len(g) - 1) : g[i] # ")"

\* a "!" stands between the first "(" of h and a later ")"
BangInsideParentheses(h) ==
    \E j \in 1..Len(h) :
        /\ h[j] = "!"
        /\ \E i \in 1..(j - 1) : h[i] = "("
        /\ \E k \in (j + 1)..Len(h) : h[k] = ")"

\* the title starts with a letter, has a colon, and the text before its
\* first colon is, "!" marks aside, the leading letters of the title alone
\* or followed by one group, with no "!" inside the group
HeaderParses(t) ==
    LET n == leadingRun(t, LetterSet)
        h == SubSeq(t, 1, leadingRun(t, Range(t) \ {":"}))
        stripped == SelectSeq(h, LAMBDA c : c # "!")
        rest == SubSeq(stripped, n + 1, Len(stripped))
    IN  /\ n >= 1
        /\ ":" \in Range(t)
        /\ Len(stripped) >= n
        /\ Len(rest) = 0 \/ OneGroup(rest)
        /\ ~BangInsideParentheses(h)

\* C25: INVALID_FORMAT is reported exactly when the title does not start
\* with a letter, or has no colon, or the text before its first colon is
\* not, once its "!" marks are removed, the leading run of letters alone or
\* followed by one parenthesised group without ")" in it; a "!" inside the
\* parentheses fails the parse as well.
C25_InvalidFormatIffHeaderMalformed ==
    Returned => (has("INVALID_FORMAT") <=> ~HeaderParses(title))

C25_Witness ==
    /\ Returned
    /\ title = Chars("feat(a!b): x")
    /\ CodeSeq(result) = <<"INVALID_FORMAT">>

\* the colon that ends the header is followed by two or more spaces
TwoSpacesAfterHeaderColon ==
    /\ Len(AfterColon) >= 2
    /\ AfterColon[1] = " "
    /\ AfterColon[2] = " "

\* C26: for every title that parses, MULTIPLE_SPACES_AFTER_COLON is
\* reported exactly when the colon that ends the header is followed by two
\* or more space characters, and so never together with
\* MISSING_SPACE_AFTER_COLON.
C26_MultipleSpacesIffAfterHeaderColon ==
    (Returned /\ Parsed) =>
        /\ has("MULTIPLE_SPACES_AFTER_COLON") <=> TwoSpacesAfterHeaderColon
        /\ ~(has("MULTIPLE_SPACES_AFTER_COLON") /\ has("MISSING_SPACE_AFTER_COLON"))

\* the description with all surrounding white space trimmed
TrimmedDescription == trim(AfterColon)

\* C27: in strict mode, for a parsed title with a non-blank description,
\* DESCRIPTION_NOT_LOWERCASE is reported exactly when the first character
\* of the trimmed description is not a lowercase letter a-z, and
\* DESCRIPTION_ENDS_WITH_PERIOD exactly when its last character is ".";
\* spaces around the description neither hide nor cause either error.
C27_StyleRulesOnTrimmedDescription ==
    (Returned /\ strict /\ Parsed /\ ~Blank(AfterColon)) =>
        /\ has("DESCRIPTION_NOT_LOWERCASE")
               <=> TrimmedDescription[1] \notin LowerSet
        /\ has("DESCRIPTION_ENDS_WITH_PERIOD")
               <=> TrimmedDescription[Len(TrimmedDescription)] = "."

C27_Witness ==
    /\ Returned
    /\ strict
    /\ title = Chars("feat: Add something.")
    /\ CodeSeq(result) = <<"DESCRIPTION_NOT_LOWERCASE", "DESCRIPTION_ENDS_WITH_PERIOD">>

\* C28: for a parsed title with a non-blank description,
\* DESCRIPTION_HAS_LEADING_SPACE is reported exactly when the text after
\* the first colon begins with two or more spaces, and
\* DESCRIPTION_HAS_TRAILING_SPACE exactly when the title ends with a space,
\* in strict and lenient mode alike; no accepted title starts its
\* description with a space or ends with one.
C28_LeadingAndTrailingSpace ==
    /\ (Returned /\ Parsed /\ ~Blank(AfterColon)) =>
           /\ has("DESCRIPTION_HAS_LEADING_SPACE") <=> TwoSpacesAfterHeaderColon
           /\ has("DESCRIPTION_HAS_TRAILING_SPACE") <=> title[Len(title)] = " "
    /\ (Returned /\ result.isValid) =>
           /\ Len(CleanDescription) > 0
           /\ CleanDescription[1] # " "
           /\ title[Len(title)] # " "

C28_Witness ==
    /\ Returned
    /\ ~strict
    /\ title = Chars("feat:  Adds x! ")
    /\ has("DESCRIPTION_HAS_LEADING_SPACE")
    /\ has("DESCRIPTION_HAS_TRAILING_SPACE")

\* C29: no error code appears more than once in the errors list of a
\* result, whatever the title and the configuration; in particular
\* INVALID_BREAKING_CHANGE_POSITION is reported at most once.
C29_NoDuplicateCodes ==
    Returned =>
        \A i, j \in 1..Len(result.errors) :
            result.errors[i].code = result.errors[j].code => i = j

C29_Witness ==
    /\ Returned
    /\ title = Chars("feat!(a-1):  Adds x! ")
    /\ has("INVALID_BREAKING_CHANGE_POSITION")
    /\ Len(result.errors) >= 4

\* the scope differs from a valid scope by the case of its letters at most
ValidUpToCase(scope) == AllIn(toLowerCase(scope), LowerSet \cup DigitSet \cup {"_", "-"})

\* C30: in strict mode a result with SCOPE_NOT_LOWERCASE also has
\* INVALID_SCOPE_FORMAT; in lenient mode a scope that differs from a valid
\* one only by letter case is reported with neither.
C30_ScopeCaseImpliesFormat ==
    LET c == parseTitle(title)
    IN  Returned =>
            /\ (strict /\ has("SCOPE_NOT_LOWERCASE")) => has("INVALID_SCOPE_FORMAT")
            /\ (~strict /\ ~c.isNull /\ c.scope # <<>> /\ ValidUpToCase(c.scope[1])) =>
                   (~has("SCOPE_NOT_LOWERCASE") /\ ~has("INVALID_SCOPE_FORMAT"))

C30_Witness ==
    /\ Returned
    /\ strict
    /\ title = Chars("feat(Auth): add login")
    /\ CodeSeq(result) = <<"SCOPE_NOT_LOWERCASE", "INVALID_SCOPE_FORMAT">>

====
